---- MODULE Spec2Model ----
(***************************************************************************)
(* The job orchestration core of pinsdaemon: app/job_manager.py (Job,      *)
(* JobManager) and the log subscriber of app/main.py (websocket_logs).     *)
(*                                                                         *)
(* Everything runs on one asyncio event loop, so a task runs alone from    *)
(* one suspension to the next.  Each action below is one such stretch of   *)
(* one task: it starts where an await suspended (a spawn, a readline, a    *)
(* sleep, a queue get, a websocket send) and ends at the next one.  An     *)
(* await of Queue.put on an unbounded queue, and an await of a coroutine   *)
(* that never suspends (add_log, start_job), do not suspend.               *)
(*                                                                         *)
(* Optional values are sequences: <<>> is None, <<v>> is the value v.      *)
(* A text line is a sequence of tokens; a token is a string.               *)
(***************************************************************************)
EXTENDS Integers, Sequences, FiniteSets, TLC

\* ------------------------------------------------------------------ bounds

\* How many lines the command and journalctl together may have logged for one
\* job (the error handler's own line is not counted).
MaxLogs == 2

\* ---------------------------------------------------------------- universes

\* The ids uuid.uuid4() hands out; each is handed out once.
Uuids == {"u1"}
\* The ids a caller of start_job may pass as job_id.
ExplicitIds == {"a"}
JobIds == Uuids \cup ExplicitIds
\* start_job calls: the k-th call creates Job record k and executor task k.
Tasks == {1, 2}
\* Websocket connections.
Subs == {1, 2}

\* JobStatus
STARTED == "started"
RUNNING == "running"
SUCCESS == "success"
FAILED == "failed"

None == <<>>
Some(v) == <<v>>

\* ------------------------------------------------------------------- text

DetachMarker == "Running as unit:"
SuccessMarker == "System upgrade completed successfully."
Blank == " "

\* What the spawned command may print, one raw line per element.
ProcessLines ==
    { <<Blank>>,
      <<"hello">>,
      <<"info:", Blank, SuccessMarker>>,
      <<DetachMarker, Blank, "demo.service", Blank>> }

\* What a command may print that starts units: lines that carry the marker
\* once, twice, or with no name after it.
UnitLines ==
    { <<"hello">>,
      <<DetachMarker, Blank, "demo.service", Blank>>,
      <<DetachMarker, Blank, "one.service", Blank,
        DetachMarker, Blank, "two.service">>,
      <<"note:", Blank, DetachMarker, Blank>> }

\* What journalctl may print for the unit.
JournalLines ==
    { <<Blank>>,
      <<"unit", Blank, "output">>,
      <<SuccessMarker>> }

\* Exit codes of the spawned command.
ReturnCodes == {0, 2}

\* Stdout of `systemctl is-active`, stripped; "raise" stands for the spawn or
\* the decode raising.
IsActiveResults == {"active", "inactive", "failed", "raise"}

\* Stdout of `systemctl show -p ExecMainStatus,Result --value`, stripped and
\* split into lines.
ShowOutputs ==
    { <<>>,
      <<"0", "success">>,
      <<"0">>,
      <<"1", "exit-code">>,
      <<"1">>,
      <<"1", "success">>,
      <<"abc", "success">> }

\* str.strip(): leading and trailing whitespace removed.
RECURSIVE LStrip(_)
LStrip(line) ==
    IF line # <<>> /\ Head(line) = Blank THEN LStrip(Tail(line)) ELSE line

RECURSIVE RStrip(_)
RStrip(line) ==
    IF line # <<>> /\ line[Len(line)] = Blank
    THEN RStrip(SubSeq(line, 1, Len(line) - 1))
    ELSE line

Strip(line) == LStrip(RStrip(line))

\* `marker in line`
Contains(line, marker) == \E i \in 1..Len(line) : line[i] = marker

\* line.split(marker)[1]: the text between the first marker and the next one
\* (or the end of the line).
RECURSIVE UpToMarker(_, _)
UpToMarker(line, marker) ==
    IF line = <<>> \/ Head(line) = marker
    THEN <<>>
    ELSE <<Head(line)>> \o UpToMarker(Tail(line), marker)

RECURSIVE AfterMarker(_, _)
AfterMarker(line, marker) ==
    IF line = <<>> THEN <<>>
    ELSE IF Head(line) = marker THEN Tail(line)
    ELSE AfterMarker(Tail(line), marker)

SecondPart(line, marker) == UpToMarker(AfterMarker(line, marker), marker)

\* The detached unit after a retained line: parts[1].strip() when the marker is
\* in the line, the value so far otherwise.
DetachedUnit(sofar, line) ==
    IF Contains(line, DetachMarker)
    THEN Some(Strip(SecondPart(line, DetachMarker)))
    ELSE sofar

\* Truth value of `detached_unit`: neither None nor the empty string.
Truthy(unit) == unit # None /\ unit[1] # <<>>

\* int(s) for the first line of the show output; <<>> when int() raises.
ToInt(s) ==
    CASE s = "0" -> Some(0)
      [] s = "1" -> Some(1)
      [] OTHER -> None

\* ------------------------------------------------------------------ state

VARIABLES
    jobs,      \* JobManager.jobs: job id -> Job record (0: no entry)
    heap,      \* the Job records ever constructed, in order of construction
    task,      \* the executor tasks, one per start_job call, with their locals
    queue,     \* per subscriber: every item put on its asyncio.Queue, in order
    sub,       \* the websocket_logs handlers, with their locals
    uuids,     \* the ids uuid4 has handed out
    clock,     \* time.time()
    units      \* per task: the systemd unit its command starts, as systemctl
               \* sees it

vars == <<jobs, heap, task, queue, sub, uuids, clock, units>>

\* Job(id=job_id, ...): the dataclass defaults.
NewJob(job_id) ==
    [ id |-> job_id,
      status |-> STARTED,
      finished_at |-> None,
      exit_code |-> None,
      logs |-> <<>>,
      listeners |-> <<>> ]

\* An executor task that start_job has created and that has not run yet.
NewTask(job_id) ==
    [ job_id |-> job_id,
      pc |-> "created",
      job |-> 0,
      detached_unit |-> None,
      returncode |-> None,
      stdout |-> None,
      final_status |-> "unknown",
      exit_code |-> 0,
      result |-> None,
      log_task |-> "none" ]

\* A websocket_logs handler that has not been called yet.
IdleSub == [ pc |-> "idle", job |-> 0, next |-> 0, taken |-> 0, sent |-> <<>> ]

\* A unit that runs, on a host where `sudo systemctl` answers.
RunningUnit == [ state |-> "active", query |-> "ok" ]

Init ==
    /\ jobs = [i \in JobIds |-> 0]
    /\ heap = <<>>
    /\ task = <<>>
    /\ queue = [s \in Subs |-> <<>>]
    /\ sub = [s \in Subs |-> IdleSub]
    /\ uuids = {}
    /\ clock = 1
    /\ units = [t \in Tasks |-> RunningUnit]

\* ------------------------------------------------------------------- Job

\* `for listener in listeners: await listener.put(item)`; the queues are
\* unbounded, so no put suspends.
RECURSIVE PutAll(_, _, _)
PutAll(qs, listeners, item) ==
    IF listeners = <<>> THEN qs
    ELSE PutAll([qs EXCEPT ![Head(listeners)] = Append(@, item)],
                Tail(listeners), item)

\* A queue that holds one item: asyncio.Queue(maxsize=1).
QueueMaxsizeOne == 0 + 1

\* asyncio.Queue(): maxsize 0, a queue without a limit.
QueueMaxsize == 0

\* Queue.qsize(): the items put and not yet taken.
QSize(q) == Len(queue[q]) - sub[q].taken

\* Queue.full()
Full(q) == QueueMaxsize > 0 /\ QSize(q) >= QueueMaxsize

\* `await listener.put(item)` returns at once for every listener of the job; a
\* put on a full queue would suspend the producer until the consumer takes an
\* item.
CanPutAll(j) == \A i \in 1..Len(j.listeners) : ~Full(j.listeners[i])

\* Job.add_log: the Job record after the append.
AddLogJob(j, line) == [j EXCEPT !.logs = Append(@, line)]
\* add_log without its broadcast loop: the line is appended and put on no queue.
AddLogQueuesNoBroadcast(qs, j, line) == qs

\* Job.add_log: the queues after the broadcast.
AddLogQueues(qs, j, line) == PutAll(qs, j.listeners, Some(line))

\* The end-of-stream broadcast: `for listener in job.listeners: put(None)`.
SendSentinel(qs, j) == PutAll(qs, j.listeners, None)

\* Job.register_listener
RegisterListener(j, q) == [j EXCEPT !.listeners = Append(@, q)]

\* A removal that drops q and every listener in front of it.
RECURSIVE RemoveUpTo(_, _)
RemoveUpTo(list, q) ==
    IF list = <<>> THEN <<>>
    ELSE IF Head(list) = q THEN Tail(list)
    ELSE RemoveUpTo(Tail(list), q)

\* Job.remove_listener: list.remove drops the first occurrence.
RECURSIVE RemoveFirst(_, _)
RemoveFirst(list, q) ==
    IF list = <<>> THEN <<>>
    ELSE IF Head(list) = q THEN Tail(list)
    ELSE <<Head(list)>> \o RemoveFirst(Tail(list), q)

\* A removal by position, `self.listeners.pop(0)`, whatever the queue.
RemoveListenerPop(j, q) ==
    IF j.listeners = <<>> THEN j ELSE [j EXCEPT !.listeners = Tail(@)]

\* Job.remove_listener, with its test `if q in self.listeners`.
RemoveListener(j, q) ==
    IF \E i \in 1..Len(j.listeners) : j.listeners[i] = q
    THEN [j EXCEPT !.listeners = RemoveFirst(@, q)]
    ELSE j

\* ------------------------------------------------------------ JobManager

\* JobManager.get_job
GetJob(job_id) == jobs[job_id]

\* JobManager.start_job(command, job_id): a new Job record is stored under the
\* id and an executor task is created for the id; the task has not run yet.
StartJobWith(job_id) ==
    /\ Len(heap) < Cardinality(Tasks)
    /\ heap' = Append(heap, NewJob(job_id))
    /\ jobs' = [jobs EXCEPT ![job_id] = Len(heap) + 1]
    /\ task' = Append(task, NewTask(job_id))
    /\ UNCHANGED <<queue, sub, clock, units>>

\* start_job(command): the id is a fresh uuid4.
start_job ==
    \E id \in Uuids \ uuids :
        /\ uuids' = uuids \cup {id}
        /\ StartJobWith(id)

\* start_job(command, job_id) with a job_id of the caller's choosing.
start_job_with_id ==
    \E id \in ExplicitIds :
        /\ UNCHANGED uuids
        /\ StartJobWith(id)

\* --------------------------------------------------------- the executor

\* An executor task exists once its start_job call has been made.
Created(t) == t <= Len(task)

\* f"Internal Error: {repr(e)}"
ErrorLine == <<"Internal Error:", Blank, "repr(e)">>

\* The lines of a log that the command or journalctl printed.
Printed(logs) == Cardinality({i \in 1..Len(logs) : logs[i] # ErrorLine})

\* _run_process without `job.status = JobStatus.RUNNING`.
RunStatusKept(j) == j.status

\* _run_process, `job.status = JobStatus.RUNNING`
RunStatus(j) == RUNNING

\* The except branch without `job.finished_at = time.time()`.
ExceptJobNoFinishedAt(j, now) ==
    [AddLogJob(j, ErrorLine) EXCEPT
        !.exit_code = Some(-1),
        !.status = FAILED]

\* _run_process, the except branch: the Job record after it.
ExceptJob(j, now) ==
    [AddLogJob(j, ErrorLine) EXCEPT
        !.exit_code = Some(-1),
        !.status = FAILED,
        !.finished_at = Some(now)]

\* The except branch without the closing `await listener.put(None)`.
ExceptQueuesNoSentinel(qs, j) == AddLogQueues(qs, j, ErrorLine)

\* _run_process, the except branch: the queues after it (the error line, then
\* the sentinel).
ExceptQueues(qs, j) == SendSentinel(AddLogQueues(qs, j, ErrorLine), j)

\* _run_process, `SUCCESS if job.exit_code == 0 else FAILED`
DirectStatus(rc) == IF rc = 0 THEN SUCCESS ELSE FAILED

\* _run_process, the direct finalization: the Job record after it.
DirectJob(j, rc, now) ==
    [j EXCEPT
        !.exit_code = Some(rc),
        !.finished_at = Some(now),
        !.status = DirectStatus(rc)]

\* The handoff test without `process.returncode == 0`.
HandsOffAnyCode(rc, unit) == Truthy(unit)

\* _run_process, `if process.returncode == 0 and detached_unit`
HandsOff(rc, unit) == rc = 0 /\ Truthy(unit)

\* f"Monitoring detached unit: {unit_name}"
MonitoringLine(unit) == <<"Monitoring detached unit:", Blank>> \o unit

\* _monitor_detached_unit, its first statement: job.add_log(...) is called
\* without await, so the coroutine object is dropped and never runs.
Announce(j, unit) == j

\* The task takes an exception raised at its current await: the except branch
\* of _run_process runs and the task ends.
Raise(t, o) ==
    /\ CanPutAll(heap[o])
    /\ heap' = [heap EXCEPT ![o] = ExceptJob(@, clock)]
    /\ queue' = ExceptQueues(queue, heap[o])
    /\ task' = [task EXCEPT ![t].pc = "done_except"]
    /\ clock' = clock + 1

\* _run_process, its first statements: the lookup of the job and the status.
\* The spawn that follows is a step of its own, so that every value the status
\* takes is a state.
run_process_begin(t) ==
    /\ Created(t)
    /\ task[t].pc = "created"
    /\ LET o == GetJob(task[t].job_id) IN
       IF o = 0
       THEN /\ task' = [task EXCEPT ![t].pc = "returned"]
            /\ UNCHANGED heap
       ELSE /\ heap' = [heap EXCEPT ![o].status = RunStatus(heap[o])]
            /\ task' = [task EXCEPT ![t].pc = "spawn", ![t].job = o]
    /\ UNCHANGED <<jobs, queue, sub, uuids, units, clock>>

\* `await asyncio.create_subprocess_exec(*command, ...)`: the command runs, or
\* the spawn raises (command not found).
run_process_spawn(t) ==
    /\ Created(t)
    /\ task[t].pc = "spawn"
    /\ \E spawned \in BOOLEAN :
          IF spawned
          THEN /\ task' = [task EXCEPT ![t].pc = "readline"]
               /\ UNCHANGED <<heap, queue, clock>>
          ELSE Raise(t, task[t].job)
    /\ UNCHANGED <<jobs, sub, uuids, units>>

\* The body of the read loop for the raw line that arrived: it is decoded and
\* stripped, and a non-empty one is logged and scanned for the detachment
\* marker.
Retain(t, raw) ==
    LET o == task[t].job
        decoded_line == Strip(raw) IN
    IF decoded_line # <<>>
    THEN /\ Printed(heap[o].logs) < MaxLogs
         /\ CanPutAll(heap[o])
         /\ heap' = [heap EXCEPT ![o] = AddLogJob(@, decoded_line)]
         /\ queue' = AddLogQueues(queue, heap[o], decoded_line)
         /\ task' = [task EXCEPT ![t].detached_unit =
                          DetachedUnit(@, decoded_line)]
    ELSE UNCHANGED <<heap, queue, task>>

\* One turn of the read loop of a command that prints ProcessLines.
run_process_readline(t) ==
    /\ Created(t)
    /\ task[t].pc = "readline"
    /\ \E raw \in ProcessLines : Retain(t, raw)
    /\ UNCHANGED <<jobs, sub, uuids, units, clock>>

\* One turn of the read loop of a command that prints UnitLines.
run_process_readline_units(t) ==
    /\ Created(t)
    /\ task[t].pc = "readline"
    /\ \E raw \in UnitLines : Retain(t, raw)
    /\ UNCHANGED <<jobs, sub, uuids, units, clock>>

\* readline raises (an I/O error, a line over the stream's limit).
run_process_readline_raises(t) ==
    /\ Created(t)
    /\ task[t].pc = "readline"
    /\ Raise(t, task[t].job)
    /\ UNCHANGED <<jobs, sub, uuids, units>>

\* End of the stream and `await process.wait()`: the hand-off to the monitor
\* (which spawns journalctl and starts read_journal), or the direct
\* finalization.
run_process_exit(t) ==
    /\ Created(t)
    /\ task[t].pc = "readline"
    /\ LET o == task[t].job IN
       \E returncode \in ReturnCodes :
          IF HandsOff(returncode, task[t].detached_unit)
          THEN \E spawned \in BOOLEAN :
               IF spawned
               THEN /\ heap' = [heap EXCEPT
                           ![o] = Announce(@, task[t].detached_unit[1])]
                    /\ task' = [task EXCEPT ![t].pc = "poll",
                                            ![t].returncode = Some(returncode),
                                            ![t].log_task = "reading"]
                    /\ UNCHANGED <<queue, clock>>
               ELSE /\ CanPutAll(heap[o])
                    /\ heap' = [heap EXCEPT ![o] = ExceptJob(@, clock)]
                    /\ queue' = ExceptQueues(queue, heap[o])
                    /\ task' = [task EXCEPT ![t].pc = "done_except",
                                            ![t].returncode = Some(returncode)]
                    /\ clock' = clock + 1
          ELSE /\ CanPutAll(heap[o])
               /\ heap' = [heap EXCEPT ![o] = DirectJob(@, returncode, clock)]
               /\ queue' = SendSentinel(queue, heap[o])
               /\ task' = [task EXCEPT ![t].pc = "done_direct",
                                       ![t].returncode = Some(returncode)]
               /\ clock' = clock + 1
    /\ UNCHANGED <<jobs, sub, uuids, units>>

\* ---------------------------------------------------------- the monitor

\* _monitor_detached_unit, one turn of the poll loop: the sleep, the
\* is-active query, the test of its answer.  On "inactive" or "failed" the
\* loop ends and journalctl is terminated; the task then waits for it and for
\* read_journal.  A query that raises is not caught in the monitor.
monitor_poll(t) ==
    /\ Created(t)
    /\ task[t].pc = "poll"
    /\ \E status \in IsActiveResults :
          IF status = "raise"
          THEN Raise(t, task[t].job)
          ELSE /\ task' = IF status \in {"inactive", "failed"}
                          THEN [task EXCEPT ![t].final_status = status,
                                            ![t].pc = "stop"]
                          ELSE task
               /\ UNCHANGED <<heap, queue, clock>>
    /\ UNCHANGED <<jobs, sub, uuids, units>>

\* What `sudo systemctl is-active <unit>` prints on stdout, stripped: the
\* unit's state, or nothing when sudo or systemctl fails with a message on
\* stderr only.
IsActive(u) == IF u.query = "ok" THEN u.state ELSE ""

\* The unit's main process ends: systemd sees the unit as inactive or failed.
unit_stops(t) ==
    /\ Created(t)
    /\ Truthy(task[t].detached_unit)
    /\ units[t].state = "active"
    /\ \E state \in {"inactive", "failed"} :
          units' = [units EXCEPT ![t].state = state]
    /\ UNCHANGED <<jobs, heap, task, queue, sub, uuids, clock>>

\* From now on `sudo systemctl is-active` fails without output on stdout.
query_breaks(t) ==
    /\ Created(t)
    /\ Truthy(task[t].detached_unit)
    /\ units[t].query = "ok"
    /\ units' = [units EXCEPT ![t].query = "broken"]
    /\ UNCHANGED <<jobs, heap, task, queue, sub, uuids, clock>>

\* monitor_poll with the answers of the task's own unit: the query raises, or
\* it prints what IsActive gives; any answer but "inactive" and "failed"
\* leaves the loop where it was.
monitor_poll_unit(t) ==
    /\ Created(t)
    /\ task[t].pc = "poll"
    /\ \E raised \in BOOLEAN :
          IF raised
          THEN Raise(t, task[t].job)
          ELSE LET status == IsActive(units[t]) IN
               /\ task' = IF status \in {"inactive", "failed"}
                          THEN [task EXCEPT ![t].final_status = status,
                                            ![t].pc = "stop"]
                          ELSE task
               /\ UNCHANGED <<heap, queue, clock>>
    /\ UNCHANGED <<jobs, sub, uuids, units>>

\* read_journal, one turn: a line of the unit's journal arrives.
read_journal(t) ==
    /\ Created(t)
    /\ task[t].log_task = "reading"
    /\ LET o == task[t].job IN
       \E raw \in JournalLines :
          LET decoded == Strip(raw) IN
          IF decoded # <<>>
          THEN /\ Printed(heap[o].logs) < MaxLogs
               /\ CanPutAll(heap[o])
               /\ heap' = [heap EXCEPT ![o] = AddLogJob(@, decoded)]
               /\ queue' = AddLogQueues(queue, heap[o], decoded)
          ELSE UNCHANGED <<heap, queue>>
    /\ UNCHANGED <<jobs, task, sub, uuids, units, clock>>

\* read_journal ends: journalctl has exited (terminated or killed by the
\* monitor, or on its own) and readline returns the end of the stream; or
\* readline raises and the task ends with that exception.
read_journal_ends(t) ==
    /\ Created(t)
    /\ task[t].log_task = "reading"
    /\ \E how \in {"done", "failed"} :
          task' = [task EXCEPT ![t].log_task = how]
    /\ UNCHANGED <<jobs, heap, queue, sub, uuids, units, clock>>

\* `await log_task` returns, or re-raises what read_journal raised.
monitor_await_log_task(t) ==
    /\ Created(t)
    /\ task[t].pc = "stop"
    /\ task[t].log_task \in {"done", "failed"}
    /\ IF task[t].log_task = "failed"
       THEN Raise(t, task[t].job)
       ELSE /\ task' = [task EXCEPT ![t].pc = "show"]
            /\ UNCHANGED <<heap, queue, clock>>
    /\ UNCHANGED <<jobs, sub, uuids, units>>

\* The parse of the show query's output: the execution result code, or <<>>
\* when int() raises.
ParseExitCode(lines) ==
    IF lines = <<>> THEN Some(0) ELSE ToInt(lines[1])

\* The parse of the show query's output: exit_code and result.
ParseShow(lines) ==
    IF ParseExitCode(lines) = None
    THEN [exit_code |-> -1, result |-> "error"]
    ELSE [exit_code |-> ParseExitCode(lines)[1],
          result |-> IF Len(lines) > 1 THEN lines[2] ELSE "unknown"]

\* The primary rule without `and exit_code == 0`.
PrimarySuccessAnyCode(final_status, result, exit_code) ==
    final_status = "inactive" /\ result = "success"

\* `final_status == "inactive" and result == "success" and exit_code == 0`
PrimarySuccess(final_status, result, exit_code) ==
    final_status = "inactive" /\ result = "success" /\ exit_code = 0

\* `any("System upgrade completed successfully." in log for log in job.logs)`
LogSuccess(logs) == \E i \in 1..Len(logs) : Contains(logs[i], SuccessMarker)

\* The fallback taken only for a unit polled as "inactive".
FallbackInactiveOnly(final_status, result, exit_code, logs) ==
    /\ final_status = "inactive"
    /\ result = "unknown"
    /\ LogSuccess(logs)

\* `if not is_success and result == "unknown"` with log_success
Fallback(final_status, result, exit_code, logs) ==
    /\ ~PrimarySuccess(final_status, result, exit_code)
    /\ result = "unknown"
    /\ LogSuccess(logs)

\* The monitor's finalization without `job.exit_code = 0` in the fallback.
MonitorJobKeepsCode(j, final_status, result, exit_code, now) ==
    [j EXCEPT
        !.exit_code = Some(exit_code),
        !.finished_at = Some(now),
        !.status = IF \/ PrimarySuccess(final_status, result, exit_code)
                      \/ Fallback(final_status, result, exit_code, j.logs)
                   THEN SUCCESS ELSE FAILED]

\* The monitor's finalization: the Job record after it.
MonitorJob(j, final_status, result, exit_code, now) ==
    [j EXCEPT
        !.exit_code = IF Fallback(final_status, result, exit_code, j.logs)
                      THEN Some(0) ELSE Some(exit_code),
        !.finished_at = Some(now),
        !.status = IF \/ PrimarySuccess(final_status, result, exit_code)
                      \/ Fallback(final_status, result, exit_code, j.logs)
                   THEN SUCCESS ELSE FAILED]

\* The show query returns (a spawn that raised leaves stdout empty), its
\* output is parsed, the verdict is taken and the job is finalized.
monitor_verdict(t) ==
    /\ Created(t)
    /\ task[t].pc = "show"
    /\ LET o == task[t].job IN
       \E stdout \in ShowOutputs :
          LET shown == ParseShow(stdout) IN
          /\ CanPutAll(heap[o])
          /\ heap' = [heap EXCEPT ![o] =
                 MonitorJob(@, task[t].final_status, shown.result,
                            shown.exit_code, clock)]
          /\ queue' = SendSentinel(queue, heap[o])
          /\ task' = [task EXCEPT ![t].pc = "done_monitor",
                                  ![t].stdout = Some(stdout),
                                  ![t].exit_code = shown.exit_code,
                                  ![t].result = Some(shown.result)]
          /\ clock' = clock + 1
    /\ UNCHANGED <<jobs, sub, uuids, units>>

\* ------------------------------------------------------- websocket_logs

\* websocket_logs up to `await websocket.accept()`.
ws_accept(s) ==
    /\ sub[s].pc = "idle"
    /\ \E job_id \in JobIds :
          sub' = [sub EXCEPT ![s] =
                    IF GetJob(job_id) = 0
                    THEN [@ EXCEPT !.pc = "closed"]
                    ELSE [@ EXCEPT !.pc = "replay", !.job = GetJob(job_id)]]
    /\ UNCHANGED <<jobs, heap, task, queue, uuids, units, clock>>

\* ws_accept for a client that connects to a job that is already finished.
ws_accept_finished(s) ==
    /\ sub[s].pc = "idle"
    /\ \E job_id \in JobIds :
          /\ GetJob(job_id) # 0
          /\ heap[GetJob(job_id)].finished_at # None
          /\ sub' = [sub EXCEPT ![s].pc = "replay", ![s].job = GetJob(job_id)]
    /\ UNCHANGED <<jobs, heap, task, queue, uuids, units, clock>>

\* The list `for line in job.logs` iterates: the Job's own list, read at each
\* turn of the loop.
ReplaySource(j) == j.logs

\* One turn of `for line in job.logs: await websocket.send_text(line)`, and,
\* when the iterator is exhausted, what follows without a suspension: the
\* close for a finished job, or register_listener and the first get.  A send
\* that raises here is not caught: the handler ends ("aborted").
ws_replay(s) ==
    /\ sub[s].pc = "replay"
    /\ LET o == sub[s].job
           src == ReplaySource(heap[o]) IN
       IF sub[s].next < Len(src)
       THEN /\ \E sent \in BOOLEAN :
                 sub' = [sub EXCEPT ![s] =
                           IF sent
                           THEN [@ EXCEPT !.next = @ + 1,
                                          !.sent = Append(@, src[sub[s].next + 1])]
                           ELSE [@ EXCEPT !.pc = "aborted"]]
            /\ UNCHANGED heap
       ELSE IF heap[o].finished_at # None
       THEN /\ sub' = [sub EXCEPT ![s].pc = "closed"]
            /\ UNCHANGED heap
       ELSE /\ heap' = [heap EXCEPT ![o] = RegisterListener(@, s)]
            /\ sub' = [sub EXCEPT ![s].pc = "live"]
    /\ UNCHANGED <<jobs, task, queue, uuids, units, clock>>

\* One turn of the live loop: an item is taken from the queue; the sentinel
\* ends the loop; a line is sent, and a send that raises ends the handler.
\* The finally clause removes the listener.
ws_live(s) ==
    /\ sub[s].pc = "live"
    /\ sub[s].taken < Len(queue[s])
    /\ LET o == sub[s].job
           line == queue[s][sub[s].taken + 1] IN
       IF line = None
       THEN /\ sub' = [sub EXCEPT ![s].taken = @ + 1, ![s].pc = "closed"]
            /\ heap' = [heap EXCEPT ![o] = RemoveListener(@, s)]
       ELSE \E sent \in BOOLEAN :
            IF sent
            THEN /\ sub' = [sub EXCEPT ![s].taken = @ + 1,
                                       ![s].sent = Append(@, line[1])]
                 /\ UNCHANGED heap
            ELSE /\ sub' = [sub EXCEPT ![s].taken = @ + 1, ![s].pc = "closed"]
                 /\ heap' = [heap EXCEPT ![o] = RemoveListener(@, s)]
    /\ UNCHANGED <<jobs, task, queue, uuids, units, clock>>

\* ------------------------------------------------------- specifications

Executor ==
    \E t \in Tasks :
        \/ run_process_begin(t)
        \/ run_process_spawn(t)
        \/ run_process_readline(t)
        \/ run_process_readline_raises(t)
        \/ run_process_exit(t)
        \/ monitor_poll(t)
        \/ read_journal(t)
        \/ read_journal_ends(t)
        \/ monitor_await_log_task(t)
        \/ monitor_verdict(t)

Subscriber ==
    \E s \in Subs :
        \/ ws_accept(s)
        \/ ws_replay(s)
        \/ ws_live(s)

\* The daemon as app/main.py drives it: every job id is a fresh uuid4.
Next == start_job \/ Executor \/ Subscriber

Spec == Init /\ [][Next]_vars

\* start_job as a library call: the caller passes the job id, and may pass the
\* same one again.  The websocket handlers, which write neither the registry
\* nor a job's status, are left out.
NextIds == start_job_with_id \/ Executor

SpecIds == Init /\ [][NextIds]_vars

\* The daemon with clients that all connect after their job has finished:
\* none of them comes to the live loop.
LateSubscriber == \E s \in Subs : ws_accept_finished(s) \/ ws_replay(s)

NextLate == start_job \/ Executor \/ LateSubscriber

SpecLate == Init /\ [][NextLate]_vars

\* The executor and monitor of a command that prints UnitLines.
ExecutorOfUnits ==
    \E t \in Tasks :
        \/ run_process_begin(t)
        \/ run_process_spawn(t)
        \/ run_process_readline_units(t)
        \/ run_process_readline_raises(t)
        \/ run_process_exit(t)
        \/ monitor_poll(t)
        \/ read_journal(t)
        \/ read_journal_ends(t)
        \/ monitor_await_log_task(t)
        \/ monitor_verdict(t)

NextUnits == start_job \/ ExecutorOfUnits

SpecUnits == Init /\ [][NextUnits]_vars

\* The executor and monitor of a job whose unit is part of the model.
ExecutorOfUnit ==
    \E t \in Tasks :
        \/ run_process_begin(t)
        \/ run_process_spawn(t)
        \/ run_process_readline(t)
        \/ run_process_readline_raises(t)
        \/ run_process_exit(t)
        \/ monitor_poll_unit(t)
        \/ read_journal(t)
        \/ read_journal_ends(t)
        \/ monitor_await_log_task(t)
        \/ monitor_verdict(t)

\* The unit and the host's systemctl.
Unit == \E t \in Tasks : unit_stops(t) \/ query_breaks(t)

NextLive == start_job \/ ExecutorOfUnit \/ Unit

\* The event loop runs every task that is ready: each step of the executor
\* and of the monitor is taken if it stays possible.  The command exits, the
\* unit stops, journalctl ends, and a poll of a stopped unit whose query
\* answers sees it stopped.  No failure is ever bound to happen.
Fairness ==
    \A t \in Tasks :
        /\ WF_vars(run_process_begin(t))
        /\ WF_vars(run_process_spawn(t) /\ task'[t].pc = "readline")
        /\ WF_vars(run_process_exit(t))
        /\ WF_vars(unit_stops(t))
        /\ WF_vars(monitor_poll_unit(t) /\ task'[t].pc = "stop")
        /\ WF_vars(read_journal_ends(t))
        /\ WF_vars(monitor_await_log_task(t))
        /\ WF_vars(monitor_verdict(t))

SpecLive == Init /\ [][NextLive]_vars /\ Fairness

\* ------------------------------------------------------------- the claims

Objects == 1..Len(heap)
Terminal(j) == j.status \in {SUCCESS, FAILED}

\* The lines among the items of a queue, in order (the sentinels left out).
RECURSIVE LinesOf(_)
LinesOf(items) ==
    IF items = <<>> THEN <<>>
    ELSE IF Head(items) = None THEN LinesOf(Tail(items))
    ELSE <<Head(items)[1]>> \o LinesOf(Tail(items))

\* How many sentinels a queue was given.
Sentinels(items) == Cardinality({i \in 1..Len(items) : items[i] = None})

\* What subscriber s has not taken from its queue yet.
Pending(s) == SubSeq(queue[s], sub[s].taken + 1, Len(queue[s]))

\* Subscriber s has taken the sentinel.
TookSentinel(s) ==
    sub[s].taken > 0 /\ queue[s][sub[s].taken] = None

\* a -> b is a step of Started -> Running -> {Success | Failed}.
Legal(a, b) ==
    \/ a = STARTED /\ b = RUNNING
    \/ a = RUNNING /\ b \in {SUCCESS, FAILED}

\* C1: every job starts as Started, and in every step of the executor, the
\* monitor or the error handler its status either stays as it is or moves along
\* Started -> Running -> {Success | Failed}; so a Success or Failed status never
\* changes again.
C1_StatusMonotone ==
    [][ /\ \A o \in Objects :
              heap'[o].status # heap[o].status
                  => Legal(heap[o].status, heap'[o].status)
        /\ \A o \in 1..Len(heap') :
              o > Len(heap) => heap'[o].status = STARTED ]_vars

\* C1, witness: a job the monitor has finalized as Success.
C1_Witness ==
    \E t \in Tasks :
        /\ Created(t)
        /\ task[t].pc = "done_monitor"
        /\ heap[task[t].job].status = SUCCESS

\* C2: in every state, finished_at is set exactly when the status is Success or
\* Failed.
C2_FinishedIffTerminal ==
    \A o \in Objects : (heap[o].finished_at # None) <=> Terminal(heap[o])

\* C2, witness: a job the error handler finalized after the hand-off to the
\* monitor.
C2_Witness ==
    \E t \in Tasks :
        /\ Created(t)
        /\ task[t].pc = "done_except"
        /\ task[t].log_task # "none"
        /\ heap[task[t].job].finished_at # None

\* C3: for a subscriber whose live queue is registered, the lines it was sent
\* followed by the lines waiting on its queue are exactly the job's log: every
\* line reaches it once, by the replay or by the queue.
C3_NoGapNoDuplicate ==
    \A s \in Subs :
        sub[s].pc = "live"
            => sub[s].sent \o LinesOf(Pending(s)) = heap[sub[s].job].logs

\* C3, witness: a subscriber that replayed a line, registered, and has a later
\* line waiting on its queue while the job is still running.
C3_Witness ==
    \E s \in Subs :
        /\ sub[s].pc = "live"
        /\ sub[s].next >= 1
        /\ LinesOf(Pending(s)) # <<>>
        /\ heap[sub[s].job].status = RUNNING

\* C4: a registered subscriber of a finished job was given exactly one
\* sentinel; and a subscriber that registered before the first line and has
\* taken the sentinel was sent every line of the job's log, in order.
C4_AllLinesThenSentinel ==
    \A s \in Subs :
        /\ (sub[s].pc = "live" /\ Terminal(heap[sub[s].job]))
              => Sentinels(queue[s]) = 1
        /\ (sub[s].pc = "closed" /\ sub[s].next = 0 /\ TookSentinel(s))
              => /\ sub[s].sent = heap[sub[s].job].logs
                 /\ Sentinels(queue[s]) = 1

\* C5: on every queue the lines are in the order of the job's log, and nothing
\* follows a sentinel.
C5_SentinelLast ==
    \A s \in Subs :
        /\ \A i \in 1..Len(queue[s]) : queue[s][i] = None => i = Len(queue[s])
        /\ sub[s].job # 0 =>
              LET logs == heap[sub[s].job].logs IN
              \E k \in 0..Len(logs) :
                  LinesOf(queue[s]) = SubSeq(logs, k + 1, k + Len(LinesOf(queue[s])))

\* C6: once a job is finalized, no line is appended to its log.
C6_NoAppendAfterFinal ==
    [][ \A o \in Objects :
            heap[o].finished_at # None => heap'[o].logs = heap[o].logs ]_vars

\* C7: no two executor tasks drive the same Job record, and once a job has
\* been handed to the monitor the executor's own code writes it no more: its
\* error handler does not finalize the job while the tailing task lives.
C7_SingleWriter ==
    /\ \A t, u \in Tasks :
          (Created(t) /\ Created(u) /\ t # u /\ task[t].job # 0)
              => task[t].job # task[u].job
    /\ \A t \in Tasks :
          (Created(t) /\ task[t].pc = "done_except")
              => task[t].log_task # "reading"

\* `marker in log` for some line of the log.
MarkerInLog(logs) ==
    \E i \in 1..Len(logs) : \E k \in 1..Len(logs[i]) : logs[i][k] = SuccessMarker

\* The verdict the specification gives: status and exit code.
Reference(state, descriptor, code, marker) ==
    IF state = "inactive" /\ descriptor = "success" /\ code = 0
    THEN <<SUCCESS, code>>
    ELSE IF descriptor = "unknown" /\ marker
    THEN <<SUCCESS, 0>>
    ELSE <<FAILED, code>>

\* C8: a job the monitor finalized has the status and the exit code of the
\* reference function, applied to the polled state, the queried descriptor and
\* result code, and the presence of the completion marker in its log.
C8_VerdictIsReference ==
    \A t \in Tasks :
        (Created(t) /\ task[t].pc = "done_monitor") =>
            LET j == heap[task[t].job] IN
            <<j.status, j.exit_code>> =
                LET r == Reference(task[t].final_status, task[t].result[1],
                                   task[t].exit_code, MarkerInLog(j.logs))
                IN <<r[1], Some(r[2])>>

\* C8, witness: an inactive unit with descriptor "success" and result code 1.
C8_Witness ==
    \E t \in Tasks :
        /\ Created(t)
        /\ task[t].pc = "done_monitor"
        /\ task[t].final_status = "inactive"
        /\ task[t].result = Some("success")
        /\ task[t].exit_code = 1

\* C9: a job whose unit was polled as "failed" is finalized as Failed.
C9_FailedStateFails ==
    \A t \in Tasks :
        (Created(t) /\ task[t].pc = "done_monitor"
                    /\ task[t].final_status = "failed")
            => heap[task[t].job].status = FAILED

\* C10: a job the monitor finalized with descriptor "unknown" and the marker in
\* its log is Success with exit code 0, whatever the queried result code.
C10_Fallback ==
    \A t \in Tasks :
        (Created(t) /\ task[t].pc = "done_monitor"
                    /\ task[t].result = Some("unknown")
                    /\ MarkerInLog(heap[task[t].job].logs))
            => /\ heap[task[t].job].status = SUCCESS
               /\ heap[task[t].job].exit_code = Some(0)

\* C10, witness: descriptor "unknown", the marker in the log, result code 1.
C10_Witness ==
    \E t \in Tasks :
        /\ Created(t)
        /\ task[t].pc = "done_monitor"
        /\ task[t].result = Some("unknown")
        /\ task[t].exit_code = 1
        /\ MarkerInLog(heap[task[t].job].logs)

\* The show query gave nothing usable: no output (also what a spawn or a wait
\* that raised leaves), a first line that is not a number, or no second line.
QueryUnusable(stdout) ==
    \/ stdout = <<>>
    \/ ToInt(stdout[1]) = None
    \/ Len(stdout) < 2

\* C11: a job the monitor finalized after a show query that failed to run or
\* whose output failed to parse has result code -1 and descriptor "error", and
\* is Failed with exit code -1.
C11_QueryFailureIsError ==
    \A t \in Tasks :
        (Created(t) /\ task[t].pc = "done_monitor"
                    /\ QueryUnusable(task[t].stdout[1]))
            => /\ task[t].exit_code = -1
               /\ task[t].result = Some("error")
               /\ heap[task[t].job].status = FAILED
               /\ heap[task[t].job].exit_code = Some(-1)

\* The task's process has exited with code 0 after a line named a unit.
ExitedDetached(t) ==
    /\ task[t].returncode = Some(0)
    /\ task[t].detached_unit # None
    /\ task[t].detached_unit[1] # <<>>

\* C12: the monitor runs exactly for a process that exited with 0 after a
\* non-empty unit name was recorded, and a job that was handed off is never
\* finalized by the executor's own code: neither directly nor by its handler.
C12_HandoffRule ==
    \A t \in Tasks :
        Created(t) =>
            /\ task[t].log_task # "none" => ExitedDetached(t)
            /\ task[t].pc \in {"poll", "stop", "show", "done_monitor"}
                  => ExitedDetached(t)
            /\ task[t].pc = "done_direct" => ~ExitedDetached(t)
            /\ (task[t].returncode # None /\ ExitedDetached(t))
                  => task[t].pc \notin {"done_direct", "done_except"}

\* C13: a process that exited with a non-zero code, or with any code when no
\* line carried the marker, is finalized directly: exit_code is the process's
\* code, the status is Success exactly for code 0, and no monitor has run.
C13_DirectFinalization ==
    \A t \in Tasks :
        (Created(t) /\ task[t].returncode # None
                    /\ (task[t].returncode # Some(0)
                           \/ task[t].detached_unit = None))
            => /\ task[t].pc = "done_direct"
               /\ task[t].log_task = "none"
               /\ task[t].final_status = "unknown"
               /\ heap[task[t].job].exit_code = task[t].returncode
               /\ heap[task[t].job].finished_at # None
               /\ heap[task[t].job].status =
                      IF task[t].returncode = Some(0) THEN SUCCESS ELSE FAILED

\* C13, witness: the marker was seen and the process then exited with 2.
C13_Witness ==
    \E t \in Tasks :
        /\ Created(t)
        /\ task[t].pc = "done_direct"
        /\ task[t].returncode = Some(2)
        /\ task[t].detached_unit # None
        /\ heap[task[t].job].status = FAILED

\* The spawn of the command or a read of its output raised in task t.
FailedBeforeExit(t) ==
    /\ task[t].pc = "done_except"
    /\ task[t].returncode = None

\* C14: after a spawn or a read that raised, the log ends with the one error
\* line it holds, the job is Failed with exit code -1 and a finish time, the
\* queue of every registered subscriber ends with that line and the
\* sentinel, and the task has ended in its handler.
C14_SpawnOrReadFailure ==
    \A t \in Tasks :
        (Created(t) /\ FailedBeforeExit(t)) =>
            LET j == heap[task[t].job] IN
            /\ j.status = FAILED
            /\ j.exit_code = Some(-1)
            /\ j.finished_at # None
            /\ Cardinality({i \in 1..Len(j.logs) : j.logs[i] = ErrorLine}) = 1
            /\ j.logs[Len(j.logs)] = ErrorLine
            /\ \A i \in 1..Len(j.listeners) :
                   LET q == queue[j.listeners[i]] IN
                   /\ Len(q) >= 2
                   /\ q[Len(q)] = None
                   /\ q[Len(q) - 1] = Some(ErrorLine)
                   /\ Sentinels(q) = 1

\* C14, witness: a read raised after a line was logged, while a subscriber
\* was registered.
C14_Witness ==
    \E t \in Tasks :
        /\ Created(t)
        /\ FailedBeforeExit(t)
        /\ Len(heap[task[t].job].logs) = 2
        /\ heap[task[t].job].listeners # <<>>

\* C15: the log of a job whose monitor has started holds the line naming the
\* unit, before every line of the tailer.
C15_MonitoringLineFirst ==
    \A t \in Tasks :
        (Created(t) /\ task[t].log_task # "none") =>
            \E i \in 1..Len(heap[task[t].job].logs) :
                heap[task[t].job].logs[i] =
                    MonitoringLine(task[t].detached_unit[1])

\* The job of task t is in a well-formed terminal state.
WellFormedTerminal(t) ==
    /\ Created(t)
    /\ task[t].job # 0
    /\ Terminal(heap[task[t].job])
    /\ heap[task[t].job].finished_at # None
    /\ heap[task[t].job].exit_code # None

\* The command of task t has exited and, if the job was handed to the
\* monitor, its unit has stopped.
ExitedAndStopped(t) ==
    /\ Created(t)
    /\ task[t].returncode # None
    /\ ExitedDetached(t) => units[t].state # "active"

\* C16: once the command has exited and the unit, if any, has stopped, the
\* job reaches a well-formed terminal state, also when the status query
\* raises or answers with something it does not recognise.
C16_EventuallyTerminal ==
    \A t \in Tasks : ExitedAndStopped(t) ~> WellFormedTerminal(t)

\* C17: no put of the producer ever has to wait: in every state the queue of
\* every registered subscriber takes one more item at once, however many items
\* its consumer has left untaken, and the steps that broadcast the error line
\* and the sentinel can be taken whenever the task has come to them.
C17_PutNeverWaits ==
    /\ \A o \in Objects :
          \A i \in 1..Len(heap[o].listeners) : ~Full(heap[o].listeners[i])
    /\ \A t \in Tasks :
          Created(t) =>
              /\ task[t].pc = "readline" =>
                    ENABLED run_process_readline_raises(t)
              /\ task[t].pc = "show" => ENABLED monitor_verdict(t)

\* C17, witness: a job has reached a terminal state while a registered
\* subscriber has taken nothing of the three items put on its queue.
C17_Witness ==
    \E s \in Subs :
        /\ sub[s].pc = "live"
        /\ sub[s].taken = 0
        /\ Len(queue[s]) >= 3
        /\ Terminal(heap[sub[s].job])

\* C18: a subscriber that found the job finished and has ended its handler
\* without an error has been sent every line of the job's log, in order, and
\* has neither registered a queue nor taken an item.  (Stated for clients that
\* all arrive after the job has finished.)
C18_LateSubscriberGetsAll ==
    \A s \in Subs :
        (sub[s].pc = "closed" /\ sub[s].job # 0) =>
            /\ sub[s].sent = heap[sub[s].job].logs
            /\ sub[s].taken = 0
            /\ queue[s] = <<>>

\* The sequence without the element q.
Without(list, q) == SelectSeq(list, LAMBDA x : x # q)

\* C19: for every job record and every queue, remove_listener takes exactly
\* that queue out of the listeners and leaves the rest of the record as it
\* was; applied again, or to a queue that is not registered, it changes
\* nothing.
C19_RemoveIdempotent ==
    \A o \in Objects : \A q \in Subs :
        LET j == heap[o]
            r == RemoveListener(j, q) IN
        /\ r.listeners = Without(j.listeners, q)
        /\ [r EXCEPT !.listeners = j.listeners] = j
        /\ RemoveListener(r, q) = r
        /\ (\A i \in 1..Len(j.listeners) : j.listeners[i] # q) => r = j

\* C19, witness: a terminal job with one subscriber still registered and
\* another whose handler has already removed its queue.
C19_Witness ==
    \E o \in Objects : \E q, p \in Subs :
        /\ Terminal(heap[o])
        /\ heap[o].listeners = <<q>>
        /\ p # q
        /\ sub[p].pc = "closed"
        /\ sub[p].job = o
        /\ sub[p].taken > 0

\* C20: a start_job call never changes the record an id already has, and
\* the record it enters under its id is Started, without exit code or finish
\* time; no step removes an entry.
C20_RecordsRetained ==
    [][\A id \in JobIds :
          /\ jobs[id] # 0 =>
                /\ jobs'[id] = jobs[id]
                /\ heap'[jobs[id]].id = id
          /\ (jobs[id] = 0 /\ jobs'[id] # 0) =>
                heap'[jobs'[id]] = NewJob(id)]_vars

\* The text after the last marker of a line that holds one.
RECURSIVE AfterLastMarker(_, _)
AfterLastMarker(line, marker) ==
    IF Contains(AfterMarker(line, marker), marker)
    THEN AfterLastMarker(AfterMarker(line, marker), marker)
    ELSE AfterMarker(line, marker)

\* The name after the last detachment marker of a log, None when no line
\* holds the marker.
RECURSIVE LastUnit(_)
LastUnit(logs) ==
    IF logs = <<>> THEN None
    ELSE IF Contains(logs[Len(logs)], DetachMarker)
    THEN Some(Strip(AfterLastMarker(logs[Len(logs)], DetachMarker)))
    ELSE LastUnit(SubSeq(logs, 1, Len(logs) - 1))

\* C21: the unit name the executor holds, and hands to the monitor, is the
\* name after the last detachment marker its command has printed, whether
\* the markers are on different lines or on one line.
C21_LastMarkerWins ==
    \A t \in Tasks :
        (Created(t) /\ task[t].job # 0) =>
            task[t].detached_unit = LastUnit(heap[task[t].job].logs)

\* The lines a step has appended to a log, as queue items.
Appended(old, new) ==
    [i \in 1..(Len(new) - Len(old)) |-> Some(new[Len(old) + i])]

\* The sentinel, if the step has finalized the job.
Closing(old, new) ==
    IF old.finished_at = None /\ new.finished_at # None
    THEN <<None>> ELSE <<>>

\* C22: in every step, whatever else the step does and whichever handlers
\* have removed their queues before it or remove them in it, the queue of
\* each subscriber that is and stays in its live loop gains exactly the lines
\* the step appends to the job's log, once each and in order, and then the
\* sentinel if the step finalizes the job.
C22_OthersUnaffected ==
    [][\A s \in Subs :
          (sub[s].pc = "live" /\ sub'[s].pc = "live") =>
              LET old == heap[sub[s].job]
                  new == heap'[sub[s].job] IN
              queue'[s] = queue[s] \o Appended(old.logs, new.logs)
                                   \o Closing(old, new)]_vars

\* C22, witness: one handler has left its live loop on a failed send and
\* removed its queue before the end of the stream; the other, registered no
\* earlier in the log, has since been put a line and the sentinel.
C22_Witness ==
    \E p, q \in Subs :
        /\ p # q
        /\ sub[p].pc = "closed"
        /\ sub[p].taken > 0
        /\ Sentinels(queue[p]) = 0
        /\ sub[q].pc = "live"
        /\ sub[q].job = sub[p].job
        /\ sub[q].next >= sub[p].next
        /\ Len(queue[q]) >= Len(queue[p]) + 2
        /\ queue[q][Len(queue[q])] = None

\* C23: a terminal job is Success exactly when its exit code is 0.
C23_StatusAgreesWithCode ==
    \A o \in Objects :
        Terminal(heap[o]) =>
            (heap[o].status = SUCCESS <=> heap[o].exit_code = Some(0))

\* The job record o was finalized by the monitor's verdict.
MonitorFinalized(o) ==
    \E t \in Tasks :
        Created(t) /\ task[t].job = o /\ task[t].pc = "done_monitor"

\* C23, amended: a terminal job that is Success has exit code 0 on every
\* path; a terminal job that is Failed has a non-zero exit code on the direct
\* and exception paths, and only the monitor's verdict leaves a Failed job
\* with the exit code 0 that the unit reported.
C23_SuccessHasCodeZero ==
    \A o \in Objects :
        Terminal(heap[o]) =>
            /\ heap[o].exit_code # None
            /\ heap[o].status = SUCCESS => heap[o].exit_code = Some(0)
            /\ (heap[o].status = FAILED /\ heap[o].exit_code = Some(0))
                  => MonitorFinalized(o)

\* C23, witness: a unit polled as "failed" whose show query printed result
\* code 0 and descriptor "success": the job is Failed with exit code 0.
C23_Witness ==
    \E t \in Tasks :
        /\ Created(t)
        /\ task[t].pc = "done_monitor"
        /\ task[t].final_status = "failed"
        /\ task[t].stdout = Some(<<"0", "success">>)
        /\ heap[task[t].job].status = FAILED
        /\ heap[task[t].job].exit_code = Some(0)

====
